---- MODULE Spec2Model ----
(***************************************************************************)
(* Model of pushAction() of the DoH testlet library (the asynchronous,     *)
(* bounded-concurrency version): the admission controller executeNext,    *)
(* the initial dispatch loop, the completion continuation of each         *)
(* invoker (try / finally), and the deasync.loopWhile sync bridge.        *)
(*                                                                         *)
(* JavaScript is single threaded: the dispatch loop runs to its end       *)
(* before any continuation, and a continuation runs to its end before     *)
(* another one or the poll.  The continuation is modelled statement by    *)
(* statement (cb.stage), and while it is in progress no other action is   *)
(* enabled.  Array indices are 1-based here (0-based in the source).      *)
(***************************************************************************)
EXTENDS Integers, Sequences, FiniteSets, TLC

\* ------------------------------------------------------------------ bounds
MaxN == 3            \* batches of 0..MaxN work items
MaxC == 2            \* small concurrency limits 1..MaxC, next to the real one
MaxPayload == 2      \* distinct payloads a work item may carry
MaxVars == 2         \* names passed to checkRequiredVariables

DefaultMaxConcurrentTasks == 100

ConcurrencyLimits == (1..MaxC) \cup {DefaultMaxConcurrentTasks}
Payloads == 1..MaxPayload
Batches == UNION {[1..n -> Payloads] : n \in 0..MaxN}

\* The data file: absent, not parseable, or holding a JSON value.  A JSON
\* string has a length and indexed elements like an array; an object has not.
File(e, p, t, el) == [exists |-> e, parses |-> p, type |-> t, elems |-> el]
DataFiles ==
    {File(FALSE, FALSE, "none", <<>>),
     File(TRUE, FALSE, "none", <<>>),
     File(TRUE, TRUE, "object", <<>>),
     File(TRUE, TRUE, "string", <<1>>)}
    \cup {File(TRUE, TRUE, "array", b) : b \in Batches}

\* process.env: a variable is unset or holds a string ("0" is a string)
Unset == "<unset>"
EnvNames == {"CLEOS_URL", "DOH_TARGET"}
EnvValues == {Unset, "", "0", "x"}
Environments == [EnvNames -> EnvValues]
VariableLists == UNION {[1..n -> EnvNames] : n \in 0..MaxVars}

NoError == [kind |-> "none", names |-> <<>>]

\* values of the globals behind setEcho() / setEchoResult()
EchoValues == {"undefined", "true", "false"}

\* What the runtime does with a rejected promise nobody handles:
\* "throw" ends the process (Node >= 15 default), "warn" prints and goes on.
RejectionModes == {"throw", "warn"}

VARIABLES
    env,                   \* process.env
    variables,             \* the arguments of checkRequiredVariables
    thrown,                \* the Error thrown to the testlet, if any
    dataFile,              \* the file named by the dataFile argument
    DoHTestletLibEcho,     \* global set by setEcho()
    DoHTestletLibEchoResult, \* global set by setEchoResult()
    console,               \* texts printed by console.log(echoStr)
    myArray,               \* the parsed data file
    maxConcurrentTasks,    \* the concurrency limit C
    rejectionMode,         \* the runtime's unhandled-rejection policy
    pc,                    \* position of the synchronous caller
    i,                     \* counter of the initial dispatch loop
    allPromisesCompleted,
    currentIndex,
    activeTasks,
    results,
    returnStr,             \* value returned by pushAction (a text)
    running,               \* indices whose external process is awaited
    cb,                    \* the continuation being executed, if any
    pendingRejections,     \* rejected executeNext() promises not yet reported
    launchLog,             \* history: indices in the order they were spawned
    completionLog,         \* history: indices in the order they resolved
    succeeded,             \* history: indices whose invoker resolved
    failed                 \* history: indices whose invoker rejected

vars == <<env, variables, thrown, dataFile, DoHTestletLibEcho, DoHTestletLibEchoResult, console,
          myArray, maxConcurrentTasks, rejectionMode, pc, i,
          allPromisesCompleted, currentIndex, activeTasks, results, returnStr,
          running, cb, pendingRejections, launchLog, completionLog, succeeded,
          failed>>

config == <<env, variables, dataFile, maxConcurrentTasks, rejectionMode>>
echoes == <<DoHTestletLibEcho, DoHTestletLibEchoResult>>
history == <<launchLog, completionLog, succeeded, failed>>

Min(a, b) == IF a < b THEN a ELSE b

NoCallback == [stage |-> "none", ok |-> TRUE]

\* ------------------------------------------------------- singlePushActionAsync
\* A text is a sequence of tokens; the only whitespace token is the newline.
Newline == <<"\n">>

ArgStr(item) == <<"[", item, "]">>
\* the command line composed for one item (one token, no whitespace kept)
CleosCmd(argStr) == << <<"cleos push action", argStr>> >>
\* what a deterministic external process prints for that command line
Stdout(argStr) == << <<"output", argStr>> >>
\* the resolved value: [ cleosCmd, result.stdout ]
SinglePushActionAsync(argStr) == <<CleosCmd(argStr), Stdout(argStr)>>

\* ------------------------------------------------------------- executeNext
QueueExhausted_OffByOne == currentIndex + 1 >= Len(myArray)

QueueExhausted == currentIndex >= Len(myArray)

NoTaskActive_Unchecked == TRUE

NoTaskActive_Never == FALSE

NoTaskActive == activeTasks = 0

\* myArray[currentIndex++] : the index consumed by this launch
NextItemIndex_Reversed == Len(myArray) - currentIndex

NextItemIndex == currentIndex + 1

\* The synchronous part of executeNext(): up to its return or to the await.
ExecuteNext ==
    IF QueueExhausted
    THEN /\ allPromisesCompleted' = (IF NoTaskActive THEN TRUE ELSE allPromisesCompleted)
         /\ UNCHANGED <<currentIndex, activeTasks, running, launchLog>>
    ELSE /\ activeTasks' = activeTasks + 1
         /\ currentIndex' = currentIndex + 1
         /\ running' = running \cup {NextItemIndex}
         /\ launchLog' = Append(launchLog, NextItemIndex)
         /\ UNCHANGED allPromisesCompleted

\* ------------------------------------------------------------- pushAction
InitialBatch_Uncapped == Len(myArray)

InitialBatch_Single == Min(1, Len(myArray))

InitialBatch == Min(maxConcurrentTasks, Len(myArray))

\* state of the batch variables before pushAction has run
BatchInit ==
    /\ DoHTestletLibEcho = "undefined"
    /\ DoHTestletLibEchoResult = "undefined"
    /\ console = <<>>
    /\ thrown = NoError
    /\ myArray = <<>>
    /\ i = 0
    /\ allPromisesCompleted = FALSE
    /\ currentIndex = 0
    /\ activeTasks = 0
    /\ results = <<>>
    /\ returnStr = <<>>
    /\ running = {}
    /\ cb = NoCallback
    /\ pendingRejections = 0
    /\ launchLog = <<>>
    /\ completionLog = <<>>
    /\ succeeded = {}
    /\ failed = {}

\* A testlet that calls pushAction(dataFile, ...)
Init ==
    /\ env = [n \in EnvNames |-> "x"]
    /\ variables = <<>>
    /\ dataFile \in DataFiles
    /\ maxConcurrentTasks \in ConcurrencyLimits
    /\ rejectionMode \in RejectionModes
    /\ pc = "load"
    /\ BatchInit

\* ------------------------------------------------- checkRequiredVariables
\* !process.env[variable] : unset or the empty string
IsFalsy_NumericZero(value) == value \in {Unset, "", "0"}

IsFalsy(value) == value = Unset \/ value = ""

\* variables.filter(variable => !process.env[variable])
RECURSIVE UndefinedVariables(_)
UndefinedVariables(vs) ==
    IF vs = <<>> THEN <<>>
    ELSE (IF IsFalsy(env[Head(vs)]) THEN <<Head(vs)>> ELSE <<>>)
         \o UndefinedVariables(Tail(vs))

CheckRequiredVariables ==
    /\ pc = "check"
    /\ IF Len(UndefinedVariables(variables)) > 0
       THEN /\ pc' = "threw"
            /\ thrown' = [kind |-> "Some required environment variables are not defined",
                          names |-> UndefinedVariables(variables)]
       ELSE /\ pc' = "load"
            /\ UNCHANGED thrown
    /\ UNCHANGED <<config, echoes, console, myArray, i, allPromisesCompleted,
                   currentIndex, activeTasks, results, returnStr, running, cb,
                   pendingRejections, history>>

\* A testlet that calls checkRequiredVariables(...variables) and then
\* pushAction on a two-item data file.
EnvInit ==
    /\ env \in Environments
    /\ variables \in VariableLists
    /\ dataFile = File(TRUE, TRUE, "array", <<1, 2>>)
    /\ maxConcurrentTasks = 1
    /\ rejectionMode \in RejectionModes
    /\ pc = "check"
    /\ BatchInit

\* setEcho(value) and setEchoResult(value), called by the testlet before it
\* calls pushAction
SetEcho(value) ==
    /\ pc = "load"
    /\ DoHTestletLibEcho' = value
    /\ UNCHANGED <<config, thrown, DoHTestletLibEchoResult, console, myArray,
                   pc, i, allPromisesCompleted, currentIndex, activeTasks,
                   results, returnStr, running, cb, pendingRejections,
                   history>>

SetEchoResult(value) ==
    /\ pc = "load"
    /\ DoHTestletLibEchoResult' = value
    /\ UNCHANGED <<config, thrown, DoHTestletLibEcho, console, myArray, pc, i,
                   allPromisesCompleted, currentIndex, activeTasks, results,
                   returnStr, running, cb, pendingRejections, history>>

\* default is echo enabled, otherwise what is set
GetEcho == IF DoHTestletLibEcho = "undefined" THEN TRUE ELSE DoHTestletLibEcho = "true"

GetEchoResult ==
    IF DoHTestletLibEchoResult = "undefined" THEN TRUE ELSE DoHTestletLibEchoResult = "true"

\* fs.existsSync(dataFile)
ExistsSync(f) == f.exists

\* Array.isArray(JSON.parse(data)); JSON.parse throws on a malformed file
IsArray_AnyJson(f) == f.parses

IsArray(f) == f.parses /\ f.type = "array"

\* pushAction up to the start of the batch: the file is checked and parsed
LoadDataFile ==
    /\ pc = "load"
    /\ IF ~ExistsSync(dataFile) \/ ~IsArray(dataFile)
       THEN /\ pc' = "threw"
            /\ thrown' = [kind |-> IF ExistsSync(dataFile) THEN "Failed to load data file"
                                   ELSE "Data file not found",
                          names |-> <<>>]
            /\ UNCHANGED myArray
       ELSE /\ pc' = "dispatch"
            /\ myArray' = dataFile.elems
            /\ UNCHANGED thrown
    /\ UNCHANGED <<config, echoes, console, i, allPromisesCompleted,
                   currentIndex, activeTasks, results, returnStr, running, cb,
                   pendingRejections, history>>

\* one iteration of "for (i = 0; i < Math.min(...); i++) executeNext();"
DispatchUpTo(limit) ==
    /\ pc = "dispatch"
    /\ i < limit
    /\ ExecuteNext
    /\ i' = i + 1
    /\ UNCHANGED <<config, thrown, echoes, console, myArray, pc, results,
                   returnStr, cb, pendingRejections, completionLog, succeeded,
                   failed>>

Dispatch == DispatchUpTo(InitialBatch)

\* the loop condition fails: the caller enters deasync.loopWhile
EnterLoopWhileAfter(limit) ==
    /\ pc = "dispatch"
    /\ ~(i < limit)
    /\ pc' = "poll"
    /\ UNCHANGED <<config, thrown, echoes, console, myArray, i,
                   allPromisesCompleted, currentIndex, activeTasks, results,
                   returnStr, running, cb, pendingRejections, history>>

EnterLoopWhile == EnterLoopWhileAfter(InitialBatch)

\* The external process of item j exits and the awaiting executeNext resumes:
\* on success the try block pushes the result, on failure the await throws.
AfterAwait_Unshift(r, j, ok) ==
    IF ok THEN <<SinglePushActionAsync(ArgStr(myArray[j]))>> \o r ELSE r

AfterAwait_PushAlways(r, j, ok) ==
    Append(r, SinglePushActionAsync(ArgStr(myArray[j])))

AfterAwait(r, j, ok) ==
    IF ok THEN Append(r, SinglePushActionAsync(ArgStr(myArray[j]))) ELSE r

\* the awaits still pending once the one of item j has settled: only that
\* one resumes, nothing is cancelled
StillAwaited_CancelOnFailure(j, ok) == IF ok THEN running \ {j} ELSE {}

StillAwaited(j, ok) == running \ {j}

Settle(j, ok) ==
    /\ pc = "poll"
    /\ cb.stage = "none"
    /\ j \in running
    /\ running' = StillAwaited(j, ok)
    /\ results' = AfterAwait(results, j, ok)
    /\ completionLog' = (IF ok THEN Append(completionLog, j) ELSE completionLog)
    /\ succeeded' = (IF ok THEN succeeded \cup {j} ELSE succeeded)
    /\ failed' = (IF ok THEN failed ELSE failed \cup {j})
    /\ cb' = [stage |-> "finally", ok |-> ok]
    /\ UNCHANGED <<config, thrown, echoes, console, myArray, pc, i,
                   allPromisesCompleted, currentIndex, activeTasks, returnStr,
                   pendingRejections, launchLog>>

\* finally { activeTasks--;
AfterDecrement_Missing == activeTasks

AfterDecrement == activeTasks - 1

Finally ==
    /\ cb.stage = "finally"
    /\ activeTasks' = AfterDecrement
    /\ cb' = [cb EXCEPT !.stage = "executeNext"]
    /\ UNCHANGED <<config, thrown, echoes, console, myArray, pc, i,
                   allPromisesCompleted, currentIndex, results, returnStr,
                   running, pendingRejections, history>>

FinallyExecuteNext_SkipOnFailure ==
    /\ cb.stage = "executeNext"
    /\ IF cb.ok THEN ExecuteNext
       ELSE UNCHANGED <<allPromisesCompleted, currentIndex, activeTasks,
                        running, launchLog>>
    /\ pendingRejections' = (IF cb.ok THEN pendingRejections ELSE pendingRejections + 1)
    /\ cb' = NoCallback
    /\ UNCHANGED <<config, thrown, echoes, console, myArray, pc, i, results,
                   returnStr, completionLog, succeeded, failed>>

\*           executeNext(); }   and then, when the await threw, the promise
\* of this executeNext is rejected; nothing handles it.
FinallyExecuteNext ==
    /\ cb.stage = "executeNext"
    /\ ExecuteNext
    /\ pendingRejections' = (IF cb.ok THEN pendingRejections ELSE pendingRejections + 1)
    /\ cb' = NoCallback
    /\ UNCHANGED <<config, thrown, echoes, console, myArray, pc, i, results,
                   returnStr, completionLog, succeeded, failed>>

\* End of the microtask drain: the runtime reports the unhandled rejections.
ProcessRejections ==
    /\ pc = "poll"
    /\ cb.stage = "none"
    /\ pendingRejections > 0
    /\ pendingRejections' = 0
    /\ pc' = (IF rejectionMode = "throw" THEN "crashed" ELSE pc)
    /\ UNCHANGED <<config, thrown, echoes, console, myArray, i,
                   allPromisesCompleted, currentIndex, activeTasks, results,
                   returnStr, running, cb, history>>

RECURSIVE Aggregate_NoSeparator(_)
Aggregate_NoSeparator(rs) ==
    IF rs = <<>> THEN <<>> ELSE Head(rs)[2] \o Aggregate_NoSeparator(Tail(rs))

\* results.forEach(res => returnStr += res[1] + '\n')
RECURSIVE Aggregate(_)
Aggregate(rs) ==
    IF rs = <<>> THEN <<>>
    ELSE (Head(rs)[2] \o <<Newline>>) \o Aggregate(Tail(rs))

\* String.prototype.trim(): whitespace removed at both ends
RECURSIVE TrimStart(_)
TrimStart(s) ==
    IF s # <<>> /\ Head(s) = Newline THEN TrimStart(Tail(s)) ELSE s

RECURSIVE TrimEnd(_)
TrimEnd(s) ==
    IF s # <<>> /\ s[Len(s)] = Newline THEN TrimEnd(SubSeq(s, 1, Len(s) - 1)) ELSE s

Trim(s) == TrimEnd(TrimStart(s))

EchoOf_Swapped(res, echo, echoResult) ==
    (IF echoResult THEN res[1] \o <<Newline>> ELSE <<>>)
    \o (IF echo THEN res[2] \o <<Newline>> ELSE <<>>)

\* if (getEcho()) echoStr += res[0] + '\n'; if (getEchoResult()) echoStr += res[1] + '\n'
EchoOf(res, echo, echoResult) ==
    (IF echo THEN res[1] \o <<Newline>> ELSE <<>>)
    \o (IF echoResult THEN res[2] \o <<Newline>> ELSE <<>>)

RECURSIVE EchoAggregate(_, _, _)
EchoAggregate(rs, echo, echoResult) ==
    IF rs = <<>> THEN <<>>
    ELSE EchoOf(Head(rs), echo, echoResult)
         \o EchoAggregate(Tail(rs), echo, echoResult)

\* console.log(echoStr) unless echoStr is empty
ConsoleLog(out, echoStr) == IF echoStr = <<>> THEN out ELSE Append(out, echoStr)

\* deasync.loopWhile(() => !allPromisesCompleted) sees the flag and the
\* caller aggregates and returns.  While the flag is false the poll only
\* yields to the event loop (a stuttering step).
LoopWhileExit ==
    /\ pc = "poll"
    /\ cb.stage = "none"
    /\ pendingRejections = 0
    /\ allPromisesCompleted
    /\ returnStr' = Trim(Aggregate(results))
    /\ console' = ConsoleLog(console, Trim(EchoAggregate(results, GetEcho, GetEchoResult)))
    /\ pc' = "returned"
    /\ UNCHANGED <<config, thrown, echoes, myArray, i, allPromisesCompleted,
                   currentIndex, activeTasks, results, running, cb,
                   pendingRejections, history>>

Next ==
    \/ \E value \in EchoValues : SetEcho(value)
    \/ \E value \in EchoValues : SetEchoResult(value)
    \/ LoadDataFile
    \/ Dispatch
    \/ EnterLoopWhile
    \/ \E j \in running, ok \in BOOLEAN : Settle(j, ok)
    \/ Finally
    \/ FinallyExecuteNext
    \/ ProcessRejections
    \/ LoopWhileExit

Spec == Init /\ [][Next]_vars

EnvNext == CheckRequiredVariables \/ Next

EnvSpec == EnvInit /\ [][EnvNext]_vars

\* Every external process exits, the event loop runs every ready
\* continuation, and the poll re-evaluates its predicate on every iteration.
Fairness ==
    /\ WF_vars(LoadDataFile)
    /\ WF_vars(Dispatch)
    /\ WF_vars(EnterLoopWhile)
    /\ WF_vars(\E j \in running, ok \in BOOLEAN : Settle(j, ok))
    /\ WF_vars(Finally)
    /\ WF_vars(FinallyExecuteNext)
    /\ WF_vars(ProcessRejections)
    /\ WF_vars(LoopWhileExit)

LiveSpec == Init /\ [][Next]_vars /\ Fairness

\* ---------------------------------- the synchronous pushAction (dohTestletLib.js)
\* A testlet that calls the synchronous pushAction(dataFile, ...), after it
\* may have called setEcho().
SyncInit ==
    /\ env = [n \in EnvNames |-> "x"]
    /\ variables = <<>>
    /\ dataFile \in DataFiles
    /\ maxConcurrentTasks = 1
    /\ rejectionMode = "throw"
    /\ DoHTestletLibEcho \in EchoValues
    /\ DoHTestletLibEchoResult = "undefined"
    /\ pc = "syncLoad"
    /\ console = <<>>
    /\ thrown = NoError
    /\ myArray = <<>>
    /\ i = 0
    /\ allPromisesCompleted = FALSE
    /\ currentIndex = 0
    /\ activeTasks = 0
    /\ results = <<>>
    /\ returnStr = <<>>
    /\ running = {}
    /\ cb = NoCallback
    /\ pendingRejections = 0
    /\ launchLog = <<>>
    /\ completionLog = <<>>
    /\ succeeded = {}
    /\ failed = {}

\* the same file checks as in the asynchronous version
SyncLoadDataFile ==
    /\ pc = "syncLoad"
    /\ IF ~ExistsSync(dataFile) \/ ~IsArray(dataFile)
       THEN /\ pc' = "threw"
            /\ thrown' = [kind |-> IF ExistsSync(dataFile) THEN "Failed to load data file"
                                   ELSE "Data file not found",
                          names |-> <<>>]
            /\ UNCHANGED myArray
       ELSE /\ pc' = "syncLoop"
            /\ myArray' = dataFile.elems
            /\ UNCHANGED thrown
    /\ UNCHANGED <<config, echoes, console, i, allPromisesCompleted,
                   currentIndex, activeTasks, results, returnStr, running, cb,
                   pendingRejections, history>>

\* for (let i = 0; i < myArray.length; i++) singlePushAction('[' + ... + ']'):
\* the command line is echoed and execSync starts the external process
SyncPushItem ==
    /\ pc = "syncLoop"
    /\ i < Len(myArray)
    /\ console' = (IF GetEcho THEN Append(console, CleosCmd(ArgStr(myArray[i + 1])))
                   ELSE console)
    /\ running' = running \cup {i + 1}
    /\ launchLog' = Append(launchLog, i + 1)
    /\ pc' = "execSync"
    /\ UNCHANGED <<config, thrown, echoes, myArray, i, allPromisesCompleted,
                   currentIndex, activeTasks, results, returnStr, cb,
                   pendingRejections, completionLog, succeeded, failed>>

\* execSync() throws an exception if cleos (the invoked process) fails
ExecSyncThrows_Never(ok) == FALSE

ExecSyncThrows(ok) == ~ok

\* the external process exits: execSync throws, or its output is printed,
\* singlePushAction returns and the loop goes to the next item
SyncExecExit(ok) ==
    /\ pc = "execSync"
    /\ running' = running \ {i + 1}
    /\ succeeded' = (IF ok THEN succeeded \cup {i + 1} ELSE succeeded)
    /\ failed' = (IF ok THEN failed ELSE failed \cup {i + 1})
    /\ completionLog' = (IF ok THEN Append(completionLog, i + 1) ELSE completionLog)
    /\ IF ExecSyncThrows(ok)
       THEN /\ pc' = "threw"
            /\ thrown' = [kind |-> "Command failed", names |-> <<>>]
            /\ UNCHANGED <<console, i>>
       ELSE /\ pc' = "syncLoop"
            /\ console' = Append(console, Stdout(ArgStr(myArray[i + 1])))
            /\ i' = i + 1
            /\ UNCHANGED thrown
    /\ UNCHANGED <<config, echoes, myArray, allPromisesCompleted, currentIndex,
                   activeTasks, results, returnStr, cb, pendingRejections,
                   launchLog>>

\* the loop is over: pushAction returns (no value)
SyncReturn ==
    /\ pc = "syncLoop"
    /\ ~(i < Len(myArray))
    /\ pc' = "returned"
    /\ UNCHANGED <<config, thrown, echoes, console, myArray, i,
                   allPromisesCompleted, currentIndex, activeTasks, results,
                   returnStr, running, cb, pendingRejections, history>>

SyncNext ==
    \/ SyncLoadDataFile
    \/ SyncPushItem
    \/ \E ok \in BOOLEAN : SyncExecExit(ok)
    \/ SyncReturn

SyncSpec == SyncInit /\ [][SyncNext]_vars

N == Len(myArray)

\* the newline-separated, non-empty fragments of a text
RECURSIVE Fragments(_)
Fragments(s) ==
    IF s = <<>> THEN <<>>
    ELSE LET k == IF \E p \in 1..Len(s) : s[p] = Newline
                  THEN CHOOSE p \in 1..Len(s) :
                           s[p] = Newline /\ \A q \in 1..p - 1 : s[q] # Newline
                  ELSE Len(s) + 1
             first == SubSeq(s, 1, k - 1)
             rest == Fragments(SubSeq(s, k + 1, Len(s)))
         IN IF first = <<>> THEN rest ELSE <<first>> \o rest

Completed == Len(results) + Cardinality(failed)

BetweenCallbacks == cb.stage = "none"

\* ------------------------------------------------------------------ C1
\* C1: in every reachable state, also inside the dispatch loop and inside a
\* continuation, the in-flight count activeTasks (and the number of awaited
\* processes) is at most min(C, N).
C1_InFlightBounded ==
    /\ activeTasks <= Min(maxConcurrentTasks, N)
    /\ Cardinality(running) <= Min(maxConcurrentTasks, N)

\* the cap binds: more items than slots, a slot was released and refilled
C1_Witness ==
    /\ N > maxConcurrentTasks
    /\ activeTasks = maxConcurrentTasks
    /\ currentIndex > maxConcurrentTasks
    /\ failed # {}
    /\ BetweenCallbacks

\* ------------------------------------------------------------------ C2
\* C2: pushAction never returns normally in a run in which some invoker
\* failed.
C2_NoNormalReturnAfterFailure == pc = "returned" => failed = {}

\* ------------------------------------------------------------------ C3
\* C3: for a batch of 0 items the batch is Done as soon as the dispatch loop
\* is over, so the sync bridge does not block.
C3_EmptyBatchIsDone == (N = 0 /\ pc = "poll") => allPromisesCompleted

\* ------------------------------------------------------------------ C4
\* C4: whenever pushAction returns normally, the aggregate holds the output
\* of all N units.
C4_NoPartialSuccess == pc = "returned" => Len(Fragments(returnStr)) = N

\* ------------------------------------------------------------------ C5
\* C5: the completion flag is set only with nothing in flight and nothing
\* queued, and pushAction returns only in such a state.
C5_DoneOnlyWhenDrained ==
    /\ allPromisesCompleted =>
          (activeTasks = 0 /\ currentIndex = N /\ running = {})
    /\ pc = "returned" =>
          (allPromisesCompleted /\ activeTasks = 0 /\ currentIndex = N)

\* returned after a batch that had to queue items
C5_Witness == pc = "returned" /\ N > maxConcurrentTasks

\* ------------------------------------------------------------------ C6
\* C6: the completion flag (Done) is set only if exactly N invokers
\* completed successfully; after a failure it is never set.
C6_DoneOnlyIfAllSucceeded ==
    allPromisesCompleted => (failed = {} /\ Cardinality(succeeded) = N)

\* ------------------------------------------------------------------ C7
\* C7: for all N >= 0, in every state the poll can observe (between
\* continuations), currentIndex = N and activeTasks = 0 holds iff
\* allPromisesCompleted is true.
C7_DoneIffExhaustedAndIdle ==
    (pc = "poll" /\ BetweenCallbacks) =>
        ((currentIndex = N /\ activeTasks = 0) <=> allPromisesCompleted)

C10_LaunchFIFO ==
    /\ Len(launchLog) = currentIndex
    /\ \A k \in 1..Len(launchLog) : launchLog[k] = k

\* all launched, item 2 completed while item 1 is still running
C10_Witness ==
    /\ N >= 3
    /\ Len(launchLog) = N
    /\ 1 \in running
    /\ 2 \in succeeded

\* ---------------------------------------------------- helpers of C11..C20
Range(f) == {f[k] : k \in DOMAIN f}

\* number of positions of a sequence that hold x
Count(seq, x) == Cardinality({k \in DOMAIN seq : seq[k] = x})

\* the output the external process of item j prints
OutputOf(j) == Stdout(ArgStr(myArray[j]))

CommandOf(j) == CleosCmd(ArgStr(myArray[j]))

\* everything printed so far, as one text
ConsoleText == IF console = <<>> THEN <<>> ELSE console[1]

Started == pc \in {"poll", "crashed", "returned"}

\* ------------------------------------------------------------------ C11
\* C11: results holds the results of the successful invokers in the order
\* in which they completed, whatever their input indices, and so does the
\* returned text.
C11_CompletionOrder ==
    /\ results = [k \in 1..Len(completionLog) |->
                     SinglePushActionAsync(ArgStr(myArray[completionLog[k]]))]
    /\ pc = "returned" =>
          Fragments(returnStr) =
              [k \in 1..Len(completionLog) |-> OutputOf(completionLog[k])]

\* returned after a later item, with another payload, completed first
C11_Witness ==
    /\ pc = "returned"
    /\ Len(completionLog) >= 2
    /\ completionLog[1] > completionLog[2]
    /\ myArray[completionLog[1]] # myArray[completionLog[2]]

\* ------------------------------------------------------------------ C12
\* C12 as stated: the returned aggregate lists the results in dispatch
\* order, for every completion interleaving.
C12_DispatchOrder ==
    (pc = "returned" /\ failed = {}) =>
        Fragments(returnStr) = [k \in 1..N |-> OutputOf(k)]

\* the outputs of the successful items, in input (= dispatch) order
RECURSIVE SucceededOutputs(_)
SucceededOutputs(k) ==
    IF k > N THEN <<>>
    ELSE (IF k \in succeeded THEN <<OutputOf(k)>> ELSE <<>>)
         \o SucceededOutputs(k + 1)

\* C12 amended: results are collected in completion order; the returned
\* aggregate is in dispatch order when the concurrency limit is 1.
C12_DispatchOrderWhenSerial ==
    (maxConcurrentTasks = 1 /\ pc = "returned") =>
        Fragments(returnStr) = SucceededOutputs(1)

\* a serial batch returned two different outputs
C12_Witness ==
    /\ maxConcurrentTasks = 1
    /\ pc = "returned"
    /\ N >= 3
    /\ Len(results) >= 2
    /\ results[1] # results[2]

\* ------------------------------------------------------------------ C13
\* C13: when no invoker failed, the returned text has exactly N fragments
\* and holds each item's output exactly once (as a multiset it equals the
\* outputs of the N items), for every completion interleaving.
C13_MultisetOfOutputs ==
    (pc = "returned" /\ failed = {}) =>
        /\ Len(Fragments(returnStr)) = N
        /\ \A p \in Payloads :
              Count(Fragments(returnStr), Stdout(ArgStr(p)))
                  = Cardinality({k \in 1..N : myArray[k] = p})

\* equal payloads around a different one, completed out of order
C13_Witness ==
    /\ pc = "returned"
    /\ failed = {}
    /\ N >= 3
    /\ myArray[1] = myArray[3]
    /\ myArray[1] # myArray[2]
    /\ completionLog[1] # 1

\* ------------------------------------------------------------------ C14
\* C14: for N > C, in every state between continuations from the end of the
\* initial dispatch until the queue is exhausted, exactly C units are in
\* flight; the count falls below C only once the queue is empty.
C14_Saturation ==
    (N > maxConcurrentTasks /\ Started /\ BetweenCallbacks /\ currentIndex < N) =>
        /\ activeTasks = maxConcurrentTasks
        /\ Cardinality(running) = maxConcurrentTasks

\* saturated again after a completion, with items still queued
C14_Witness ==
    /\ N > maxConcurrentTasks
    /\ pc = "poll"
    /\ BetweenCallbacks
    /\ currentIndex < N
    /\ Completed > 0
    /\ activeTasks = maxConcurrentTasks

\* ------------------------------------------------------------------ C15
BadInput == ~dataFile.exists \/ ~dataFile.parses \/ dataFile.type # "array"

\* C15: when the data file is absent or its JSON is not an array, pushAction
\* throws and no invoker is ever launched.
C15_InputErrorBeforeDispatch ==
    BadInput =>
        /\ pc \in {"load", "threw"}
        /\ pc = "threw" => thrown # NoError
        /\ currentIndex = 0
        /\ activeTasks = 0
        /\ running = {}
        /\ launchLog = <<>>

\* thrown for a file that holds JSON which is not an array
C15_Witness ==
    /\ pc = "threw"
    /\ dataFile.parses
    /\ dataFile.type = "string"
    /\ thrown.kind = "Failed to load data file"

\* ------------------------------------------------------------------ C16
\* an executor without concurrency limit: the dispatch loop launches all items
UnboundedNext ==
    \/ \E value \in EchoValues : SetEcho(value)
    \/ \E value \in EchoValues : SetEchoResult(value)
    \/ LoadDataFile
    \/ DispatchUpTo(Len(myArray))
    \/ EnterLoopWhileAfter(Len(myArray))
    \/ \E j \in running, ok \in BOOLEAN : Settle(j, ok)
    \/ Finally
    \/ FinallyExecuteNext
    \/ ProcessRejections
    \/ LoopWhileExit

\* C16: for N <= C every step of the bounded executor is a step of the
\* unbounded one, all N items are launched by the dispatch loop before any
\* completion, and no item is launched on a slot release.
C16_ActsUnbounded ==
    [][(N <= maxConcurrentTasks) =>
          /\ UnboundedNext
          /\ launchLog' # launchLog => (pc = "dispatch" /\ Completed = 0)
          /\ (pc = "dispatch" /\ pc' = "poll") => (currentIndex = N /\ Completed = 0)
      ]_vars

\* the real limit of 100, several items, completed out of input order
C16_Witness ==
    /\ maxConcurrentTasks = DefaultMaxConcurrentTasks
    /\ pc = "returned"
    /\ N >= 2
    /\ Len(completionLog) >= 1
    /\ completionLog[1] # 1

\* ------------------------------------------------------------------ C17
\* C17 as stated (its first half): with echo-command on, the command line of
\* every launched unit has been echoed by the time the unit executes.
C17_EchoBeforeExecution ==
    GetEcho => \A j \in Range(launchLog) : Count(ConsoleText, CommandOf(j)[1]) > 0

\* C17 amended: nothing is echoed before pushAction returns; at the return
\* one block is printed that holds, for the units that succeeded only, the
\* command line iff echo-command is on and the output iff echo-result is on,
\* each toggle affecting only its own echo; failed units are not echoed.
C17_EchoAfterBatch ==
    /\ pc # "returned" => console = <<>>
    /\ pc = "returned" =>
         /\ Len(console) <= 1
         /\ \A p \in Payloads :
              LET n == Cardinality({k \in succeeded : myArray[k] = p})
              IN /\ Count(ConsoleText, CleosCmd(ArgStr(p))[1])
                       = (IF GetEcho THEN n ELSE 0)
                 /\ Count(ConsoleText, Stdout(ArgStr(p))[1])
                       = (IF GetEchoResult THEN n ELSE 0)

\* returned with a success and a failure, commands echoed and outputs not
C17_Witness ==
    /\ pc = "returned"
    /\ succeeded # {}
    /\ failed # {}
    /\ GetEcho
    /\ ~GetEchoResult
    /\ console # <<>>

\* ------------------------------------------------------------------ C18
Missing == {v \in Range(variables) : env[v] = Unset \/ env[v] = ""}

\* C18: checkRequiredVariables throws iff a named variable is unset or
\* empty, the error names exactly those, and otherwise it returns and
\* changes nothing; the batch has not dispatched anything when it throws.
C18_CheckRequiredVariables ==
    [][pc = "check" =>
          /\ IF Missing # {}
             THEN /\ pc' = "threw"
                  /\ Range(thrown'.names) = Missing
                  /\ thrown'.kind = "Some required environment variables are not defined"
             ELSE /\ pc' = "load"
                  /\ thrown' = thrown
          /\ launchLog' = <<>> /\ currentIndex' = 0 /\ activeTasks' = 0
          /\ UNCHANGED <<config, echoes, console, myArray, i,
                         allPromisesCompleted, currentIndex, activeTasks,
                         results, returnStr, running, cb, pendingRejections,
                         history>>
      ]_vars

\* thrown for one missing name of two, the other one being set to "0"
C18_Witness ==
    /\ pc = "threw"
    /\ Len(variables) = 2
    /\ thrown.names = <<"CLEOS_URL">>
    /\ env["DOH_TARGET"] = "0"
    /\ env["CLEOS_URL"] = ""

\* ------------------------------------------------------------------ C19
\* C19: every completion, success or failure, has decremented the in-flight
\* counter and launched a replacement while an unlaunched item remained:
\* once its continuation is over, the number of launches is
\* min(N, min(C, N) + completions) and in-flight = launches - completions.
C19_ReplacementOnCompletion ==
    /\ (Started /\ BetweenCallbacks) =>
          /\ currentIndex = Min(N, Min(maxConcurrentTasks, N) + Completed)
          /\ activeTasks = currentIndex - Completed
    /\ cb.stage = "executeNext" => activeTasks = currentIndex - Completed

\* the only completion so far failed and its replacement is running
C19_Witness ==
    /\ BetweenCallbacks
    /\ failed = {1}
    /\ succeeded = {}
    /\ currentIndex = maxConcurrentTasks + 1
    /\ (maxConcurrentTasks + 1) \in running

\* ------------------------------------------------------------------ C20
\* C20: the dispatch loop launches items 1..min(C, N) (0-based 0..min-1)
\* before any completion is processed, and after it
\* currentIndex = activeTasks = min(C, N).
C20_InitialDispatch ==
    /\ pc = "dispatch" =>
          /\ Completed = 0
          /\ i <= Min(maxConcurrentTasks, N)
          /\ currentIndex = i /\ activeTasks = i
          /\ launchLog = [k \in 1..i |-> k]
    /\ (pc = "poll" /\ Completed = 0 /\ BetweenCallbacks) =>
          /\ currentIndex = Min(maxConcurrentTasks, N)
          /\ activeTasks = Min(maxConcurrentTasks, N)
          /\ running = 1..Min(maxConcurrentTasks, N)

\* the loop is over with the cap binding: C launched, items left queued
C20_Witness ==
    /\ pc = "poll"
    /\ Completed = 0
    /\ maxConcurrentTasks > 1
    /\ N > maxConcurrentTasks
    /\ currentIndex = maxConcurrentTasks

\* ------------------------------------------------------------------ C21
\* Idle 0, Dispatching 1, Draining 2, Done 3
Phase ==
    IF allPromisesCompleted THEN 3
    ELSE IF launchLog = <<>> THEN 0
    ELSE IF currentIndex < N THEN 1
    ELSE 2

\* C21: once the batch has started, every step keeps the cursor within
\* 0..N and never decreases it, never lowers the phase, and after Done
\* changes neither the flag, the counter, the cursor, the results nor the
\* set of launched invokers.
C21_PhasesMoveForward ==
    [][pc # "load" =>
          /\ currentIndex' >= currentIndex
          /\ currentIndex' <= N
          /\ Phase' >= Phase
          /\ currentIndex = N => currentIndex' = N
          /\ allPromisesCompleted =>
                /\ allPromisesCompleted'
                /\ UNCHANGED <<currentIndex, activeTasks, results, running,
                               launchLog, completionLog, succeeded, failed>>
      ]_vars

\* Done is observed by the poll after a batch that went through all phases
C21_Witness ==
    /\ allPromisesCompleted
    /\ pc = "poll"
    /\ N > maxConcurrentTasks
    /\ Len(results) = N

\* ------------------------------------------------------------------ C22
Launched == Range(launchLog)

\* C22: a launched invoker leaves the in-flight set only by its own
\* completion, one per step, also when a sibling fails, and Done is not
\* reported before every launched invoker has completed.
C22_NoCancellation ==
    [][/\ \A j \in running :
             j \in running' \/ (j \notin succeeded \cup failed
                                 /\ j \in succeeded' \cup failed')
       /\ Cardinality(running \ running') <= 1
       /\ allPromisesCompleted' => Launched' = succeeded' \cup failed'
      ]_vars

\* a sibling was in flight when an invoker failed, and completed afterwards
C22_Witness ==
    /\ failed = {1}
    /\ 2 \in succeeded
    /\ allPromisesCompleted
    /\ maxConcurrentTasks > 1

\* ------------------------------------------------------------------ C23
\* C23: no index is ever launched twice, and in every run that reaches Done
\* each index 1..N was launched exactly once, also when invokers failed.
C23_LaunchedExactlyOnce ==
    /\ \A j \in 1..N : Count(launchLog, j) <= 1
    /\ Launched \subseteq 1..N
    /\ allPromisesCompleted => \A j \in 1..N : Count(launchLog, j) = 1

\* Done after a batch with queued items, a failure and a success
C23_Witness ==
    /\ allPromisesCompleted
    /\ N > maxConcurrentTasks
    /\ failed # {}
    /\ succeeded # {}

\* ------------------------------------------------------------------ C24
\* C24: results holds one entry per successful completion and none for a
\* failed one; its length never exceeds currentIndex and is N minus the
\* number of failed invokers at Done.
C24_ResultsAreSuccesses ==
    /\ Len(results) = Cardinality(succeeded)
    /\ Len(results) = Len(completionLog)
    /\ succeeded \cap failed = {}
    /\ Len(results) <= currentIndex
    /\ allPromisesCompleted => Len(results) = N - Cardinality(failed)

\* Done with fewer results than items because two invokers failed
C24_Witness ==
    /\ allPromisesCompleted
    /\ Cardinality(failed) = 2
    /\ Len(results) = 1

\* ------------------------------------------------------------------ C25
\* C25: the synchronous pushAction has at most one external process in
\* flight, pushes the items in input order, starts item j+1 only after item
\* j returned, and throws at the first failing item, after which no item is
\* pushed.
C25_SequentialPush ==
    /\ Cardinality(running) <= 1
    /\ launchLog = [k \in 1..Len(launchLog) |-> k]
    /\ \A k \in 2..Len(launchLog) : (k - 1) \in succeeded
    /\ failed # {} =>
          /\ pc = "threw"
          /\ thrown # NoError
          /\ failed = {Len(launchLog)}
          /\ running = {}

\* item 2 failed: the call threw and item 3 was never pushed
C25_Witness ==
    /\ pc = "threw"
    /\ N = 3
    /\ failed = {2}
    /\ succeeded = {1}
    /\ launchLog = <<1, 2>>

\* ------------------------------------------------------------------ C26
\* what both versions of pushAction do to the external processes
processes == <<launchLog, running, completionLog, succeeded, failed>>

\* the sequential loop starts the next item of the input when none is running
SequentialPush ==
    /\ running = {}
    /\ Len(launchLog) < N
    /\ launchLog' = Append(launchLog, Len(launchLog) + 1)
    /\ running' = {Len(launchLog) + 1}
    /\ UNCHANGED <<completionLog, succeeded, failed>>

\* the one running item returns
SequentialReturn ==
    /\ launchLog # <<>>
    /\ running = {launchLog[Len(launchLog)]}
    /\ running' = {}
    /\ completionLog' = Append(completionLog, launchLog[Len(launchLog)])
    /\ succeeded' = succeeded \cup running
    /\ UNCHANGED <<launchLog, failed>>

SequentialStep == SequentialPush \/ SequentialReturn \/ UNCHANGED processes

\* C26: with a concurrency limit of 1 and no failing item, every step of the
\* asynchronous pushAction is a step of the sequential loop (one item at a
\* time, in input order), and the results it returns are those of items
\* 1..N in input order.
C26_SequentialWhenOne ==
    [][(maxConcurrentTasks = 1 /\ failed' = {}) =>
          /\ SequentialStep
          /\ Cardinality(running') <= 1
          /\ pc' = "returned" =>
                /\ completionLog' = [k \in 1..N |-> k]
                /\ results' = [k \in 1..N |-> SinglePushActionAsync(ArgStr(myArray[k]))]
                /\ Fragments(returnStr') = [k \in 1..N |-> OutputOf(k)]
      ]_vars

\* three items were pushed with the limit 1, none failed, the call returned
C26_Witness ==
    /\ maxConcurrentTasks = 1
    /\ pc = "returned"
    /\ failed = {}
    /\ completionLog = <<1, 2, 3>>

\* ------------------------------------------------------------------ C27
\* A fixed pool of maxConcurrentTasks workers over a FIFO queue of the items.
\* Idle workers pull the next items of the queue, in input order.
PoolPull ==
    \E m \in (Len(launchLog) + 1)..N :
        /\ launchLog' = [k \in 1..m |-> k]
        /\ running' = running \cup ((Len(launchLog) + 1)..m)
        /\ Cardinality(running') <= maxConcurrentTasks
        /\ UNCHANGED <<completionLog, succeeded, failed>>

\* a worker's item completes; its result, if any, goes to the result channel
PoolFinish ==
    \E j \in running :
        /\ running' = running \ {j}
        /\ \/ /\ completionLog' = Append(completionLog, j)
              /\ succeeded' = succeeded \cup {j}
              /\ UNCHANGED failed
           \/ /\ failed' = failed \cup {j}
              /\ UNCHANGED <<completionLog, succeeded>>
        /\ UNCHANGED launchLog

\* the queue is empty and every worker is idle
PoolTerminated == Len(launchLog) = N /\ running = {}

\* C27: every step of the executor is a step of the worker pool (same launch
\* order, in-flight bound and completion order), and whenever the caller
\* polls, the executor is Done exactly when the worker pool has terminated.
C27_WorkerPoolEquivalent ==
    [][/\ PoolPull \/ PoolFinish \/ UNCHANGED processes
       /\ Cardinality(running') <= maxConcurrentTasks
       /\ (pc' = "poll" /\ BetweenCallbacks') =>
             (allPromisesCompleted' <=> PoolTerminated')
      ]_vars

====
